---- MODULE Spec2Model ----
(***************************************************************************)
(* Merit chatbot (src/app.py): slot extraction, normalisation, the        *)
(* per-session dialogue store and the fallback query resolver.            *)
(*                                                                         *)
(* Text is modelled as a sequence of one-character strings, so that       *)
(* lower(), strip(), substring tests, regular-expression word boundaries  *)
(* and difflib's ratio are computed, not assumed.  Python's None is the   *)
(* value None below; the empty string is <<>>.                            *)
(***************************************************************************)
EXTENDS Integers, Sequences, FiniteSets, TLC

VARIABLES
  merit_records,   \* the rows loaded at start-up (line 107), read-only afterwards
  user_context,    \* session id -> stored entry (line 31)
  threads,         \* each worker's position in chat() and its local variables
  history,         \* the completed turns, in completion order (observation only)
  probe            \* the last call of a pure function and its result (observation only)

vars == <<merit_records, user_context, threads, history, probe>>

----------------------------------------------------------------------------
(* Bounds of the model *)

\* datetime.now().year (line 311): the year the process runs in.
NowYear == 2023
\* The number of turns a run of the dialogue specification completes.
MaxTurns == 3
\* The number of turns a run of the concurrent specification starts.
MaxStarts == 3

----------------------------------------------------------------------------
(* Characters and strings *)

None == <<"None">>

UpperCase == <<"A","B","C","D","E","F","G","H","I","J","K","L","M",
               "N","O","P","Q","R","S","T","U","V","W","X","Y","Z">>
LowerCase == <<"a","b","c","d","e","f","g","h","i","j","k","l","m",
               "n","o","p","q","r","s","t","u","v","w","x","y","z">>
DigitChars == <<"0","1","2","3","4","5","6","7","8","9">>

\* The characters of the model in code-point order (what sorted() compares).
CharOrder == <<" ", "&", "'", ",", "-", ".">> \o DigitChars \o UpperCase
             \o <<"_">> \o LowerCase

Range(s) == {s[i] : i \in 1..Len(s)}

CharSet == Range(CharOrder)

OrdMap == [c \in CharSet |-> CHOOSE i \in 1..Len(CharOrder) : CharOrder[i] = c]

LowerMap == [c \in CharSet |->
               IF c \in Range(UpperCase)
               THEN LowerCase[CHOOSE i \in 1..26 : UpperCase[i] = c]
               ELSE c]

UpperMap == [c \in CharSet |->
               IF c \in Range(LowerCase)
               THEN UpperCase[CHOOSE i \in 1..26 : LowerCase[i] = c]
               ELSE c]

\* str.lower()
lower(s) == [i \in 1..Len(s) |-> LowerMap[s[i]]]

\* str.upper(), used only to build the inputs of the normalisers
upper(s) == [i \in 1..Len(s) |-> UpperMap[s[i]]]

\* \s of the regular expressions and the characters str.strip() removes
IsSpace(c) == c = " "

\* \w of the regular expressions
IsWordChar(c) == c \in Range(UpperCase) \cup Range(LowerCase) \cup Range(DigitChars) \cup {"_"}

RECURSIVE lstrip(_)
lstrip(s) == IF s # <<>> /\ IsSpace(Head(s)) THEN lstrip(Tail(s)) ELSE s

RECURSIVE rstrip(_)
rstrip(s) == IF s # <<>> /\ IsSpace(s[Len(s)]) THEN rstrip(SubSeq(s, 1, Len(s) - 1)) ELSE s

\* str.strip()
strip(s) == rstrip(lstrip(s))

\* needle in hay
Contains(hay, needle) ==
  \E i \in 0..(Len(hay) - Len(needle)) : SubSeq(hay, i + 1, i + Len(needle)) = needle

\* Python truthiness of an optional string: None and "" are falsy.
Truthy(x) == x # None /\ x # <<>>

\* x or y
OrElse(x, y) == IF Truthy(x) THEN x ELSE y

\* a < b as Python compares str
RECURSIVE StrLess(_, _)
StrLess(a, b) ==
  IF a = <<>> THEN b # <<>>
  ELSE IF b = <<>> THEN FALSE
  ELSE IF Head(a) = Head(b) THEN StrLess(Tail(a), Tail(b))
  ELSE OrdMap[Head(a)] < OrdMap[Head(b)]

\* sorted(S) for a set of strings
RECURSIVE SortedStrs(_)
SortedStrs(S) ==
  IF S = {} THEN <<>>
  ELSE LET m == CHOOSE x \in S : \A y \in S \ {x} : StrLess(x, y)
       IN <<m>> \o SortedStrs(S \ {m})

\* sorted(S) for a set of integers
RECURSIVE SortedInts(_)
SortedInts(S) ==
  IF S = {} THEN <<>>
  ELSE LET m == CHOOSE x \in S : \A y \in S : x <= y
       IN <<m>> \o SortedInts(S \ {m})

\* ", ".join(parts)
RECURSIVE JoinComma(_)
JoinComma(parts) ==
  IF parts = <<>> THEN <<>>
  ELSE IF Len(parts) = 1 THEN parts[1]
  ELSE parts[1] \o <<",", " ">> \o JoinComma(Tail(parts))

\* The order-preserving, case-insensitive de-duplication of lines 229-234
\* and 374-379.
RECURSIVE DedupeLower(_, _)
DedupeLower(xs, seen) ==
  IF xs = <<>> THEN <<>>
  ELSE IF lower(Head(xs)) \in seen THEN DedupeLower(Tail(xs), seen)
  ELSE <<Head(xs)>> \o DedupeLower(Tail(xs), seen \cup {lower(Head(xs))})

\* dict lookup in an alias table (a sequence of <<key, value>> in source order)
AliasHas(table, key) == \E i \in 1..Len(table) : table[i][1] = key
AliasGet(table, key) == table[CHOOSE i \in 1..Len(table) : table[i][1] = key][2]

----------------------------------------------------------------------------
(* difflib.SequenceMatcher(None, a, b).ratio() *)

Min2(x, y) == IF x <= y THEN x ELSE y

\* The number of matched characters: the longest common block (the earliest
\* in a, then the earliest in b, among the longest), then the same to its
\* left and to its right.
RECURSIVE Matches(_, _)
Matches(a, b) ==
  IF a = <<>> \/ b = <<>> THEN 0
  ELSE
    LET blocks == {t \in (1..Len(a)) \X (1..Len(b)) \X (1..Min2(Len(a), Len(b))) :
                     /\ t[1] + t[3] - 1 <= Len(a)
                     /\ t[2] + t[3] - 1 <= Len(b)
                     /\ SubSeq(a, t[1], t[1] + t[3] - 1) = SubSeq(b, t[2], t[2] + t[3] - 1)}
    IN IF blocks = {} THEN 0
       ELSE
         LET k == CHOOSE n \in {t[3] : t \in blocks} : \A t \in blocks : t[3] <= n
             i == CHOOSE n \in {t[1] : t \in {u \in blocks : u[3] = k}} :
                    \A t \in blocks : t[3] = k => n <= t[1]
             j == CHOOSE n \in {t[2] : t \in {u \in blocks : u[3] = k /\ u[1] = i}} :
                    \A t \in blocks : (t[3] = k /\ t[1] = i) => n <= t[2]
         IN k + Matches(SubSeq(a, 1, i - 1), SubSeq(b, 1, j - 1))
              + Matches(SubSeq(a, i + k, Len(a)), SubSeq(b, j + k, Len(b)))

\* ratio(a, b) as the fraction <<2M, T>>; difflib gives 1.0 when T = 0.
ratio(a, b) ==
  LET x == lower(IF a = None THEN <<>> ELSE a)
      y == lower(IF b = None THEN <<>> ELSE b)
  IN IF Len(x) + Len(y) = 0 THEN <<1, 1>>
     ELSE <<2 * Matches(x, y), Len(x) + Len(y)>>

\* r1 > r2 for two fractions
RatioGreater(r1, r2) == r1[1] * r2[2] > r2[1] * r1[2]

\* r >= cutoff / 100
RatioAtLeast(r, cutoff) == 100 * r[1] >= cutoff * r[2]

\* fuzzy_pick: the first option of the best ratio, if that ratio reaches the
\* cutoff (given in hundredths).
RECURSIVE FuzzyLoop(_, _, _, _)
FuzzyLoop(candidate, options, best, best_r) ==
  IF options = <<>> THEN <<best, best_r>>
  ELSE LET r == ratio(candidate, Head(options))
       IN IF RatioGreater(r, best_r)
          THEN FuzzyLoop(candidate, Tail(options), Head(options), r)
          ELSE FuzzyLoop(candidate, Tail(options), best, best_r)

fuzzy_pick(candidate, options, cutoff) ==
  IF ~Truthy(candidate) \/ options = <<>> THEN None
  ELSE LET res == FuzzyLoop(candidate, options, None, <<0, 1>>)
       IN IF RatioAtLeast(res[2], cutoff) THEN res[1] ELSE None

\* body, with x standing for the value of e
Bind(e, body(_)) == CHOOSE r \in {body(x) : x \in {e}} : TRUE
----------------------------------------------------------------------------
(* The catalog: vocabularies derived from the loaded rows (lines 112-122) *)

Field(recs, f) == {recs[i][f] : i \in 1..Len(recs)}

UNIS(recs)  == SortedStrs(Field(recs, "University") \ {<<>>})
DEPTS(recs) == SortedStrs(Field(recs, "Department") \ {<<>>})
PROGS(recs) == SortedStrs(Field(recs, "Program") \ {<<>>})
CAMPS(recs) == SortedStrs(Field(recs, "Campus") \ {<<>>})

\* UNI_TO_CAMP[uni], for uni a key of the map
UNI_TO_CAMP(recs, uni) ==
  SortedStrs({recs[i].Campus : i \in {j \in 1..Len(recs) : recs[j].University = uni}})

\* uni in UNI_TO_CAMP
InUniToCamp(recs, uni) == uni \in Field(recs, "University")

----------------------------------------------------------------------------
(* Alias tables (lines 143-181), in source order *)

dept_aliases ==
  << <<<<"c","s">>, <<"C","o","m","p","u","t","e","r"," ","S","c","i","e","n","c","e">>>>,
     <<<<"c",".","s">>, <<"C","o","m","p","u","t","e","r"," ","S","c","i","e","n","c","e">>>>,
     <<<<"c","o","m","p"," ","s","c","i","e","n","c","e">>, <<"C","o","m","p","u","t","e","r"," ","S","c","i","e","n","c","e">>>>,
     <<<<"c","o","m","p","u","t","e","r"," ","s","c","i","e","n","c","e">>, <<"C","o","m","p","u","t","e","r"," ","S","c","i","e","n","c","e">>>>,
     <<<<"c","o","m","p","u","t","e","r","s","c","i","e","n","c","e">>, <<"C","o","m","p","u","t","e","r"," ","S","c","i","e","n","c","e">>>>,
     <<<<"s","e">>, <<"S","o","f","t","w","a","r","e"," ","E","n","g","i","n","e","e","r","i","n","g">>>>,
     <<<<"s","o","f","t","w","a","r","e"," ","e","n","g","i","n","e","e","r","i","n","g">>, <<"S","o","f","t","w","a","r","e"," ","E","n","g","i","n","e","e","r","i","n","g">>>>,
     <<<<"c","y","b","e","r">>, <<"C","y","b","e","r"," ","S","e","c","u","r","i","t","y">>>>,
     <<<<"c","y","b","e","r"," ","s","e","c","u","r","i","t","y">>, <<"C","y","b","e","r"," ","S","e","c","u","r","i","t","y">>>>,
     <<<<"c","o","m","p","u","t","i","n","g">>, <<"C","o","m","p","u","t","i","n","g">>>>,
     <<<<"e","e">>, <<"E","l","e","c","t","r","i","c","a","l">>>>,
     <<<<"e","l","e","c","t","r","i","c","a","l">>, <<"E","l","e","c","t","r","i","c","a","l">>>>,
     <<<<"e","l","e","c","t","r","i","c","a","l"," ","e","n","g","i","n","e","e","r","i","n","g">>, <<"E","l","e","c","t","r","i","c","a","l">>>>,
     <<<<"m","e">>, <<"M","e","c","h","a","n","i","c","a","l">>>>,
     <<<<"m","e","c","h","a","n","i","c","a","l">>, <<"M","e","c","h","a","n","i","c","a","l">>>>,
     <<<<"m","e","c","h","a","n","i","c","a","l"," ","e","n","g","i","n","e","e","r","i","n","g">>, <<"M","e","c","h","a","n","i","c","a","l">>>>,
     <<<<"p","h","y","s","i","c","s">>, <<"P","h","y","s","i","c","s">>>>,
     <<<<"a","p","p","l","i","e","d"," ","p","h","y","s","i","c","s">>, <<"A","p","p","l","i","e","d"," ","P","h","y","s","i","c","s">>>>,
     <<<<"m","a","t","h">>, <<"M","a","t","h","e","m","a","t","i","c","s">>>> >>

prog_aliases ==
  << <<<<"b","s">>, <<"B","S">>>>,
     <<<<"b",".","s">>, <<"B","S">>>>,
     <<<<"b","s","c">>, <<"B","S">>>>,
     <<<<"b",".","s","c">>, <<"B","S">>>>,
     <<<<"b","a","c","h","e","l","o","r","s">>, <<"B","S">>>>,
     <<<<"b","a","c","h","e","l","o","r">>, <<"B","S">>>>,
     <<<<"u","n","d","e","r","g","r","a","d">>, <<"B","S">>>>,
     <<<<"u","g">>, <<"B","S">>>>,
     <<<<"m","s">>, <<"M","S">>>>,
     <<<<"m",".","s">>, <<"M","S">>>>,
     <<<<"m","s","c">>, <<"M","S">>>>,
     <<<<"m",".","s","c">>, <<"M","S">>>>,
     <<<<"m","p","h","i","l">>, <<"M","P","h","i","l">>>>,
     <<<<"m",".","p","h","i","l">>, <<"M","P","h","i","l">>>>,
     <<<<"p","o","s","t","g","r","a","d">>, <<"M","S">>>>,
     <<<<"p","g">>, <<"M","S">>>>,
     <<<<"p","h","d">>, <<"P","h","D">>>>,
     <<<<"p","h",".","d">>, <<"P","h","D">>>>,
     <<<<"d","o","c","t","o","r","a","t","e">>, <<"P","h","D">>>> >>

campus_aliases ==
  << <<<<"i","s","b">>, <<"I","s","l","a","m","a","b","a","d">>>>,
     <<<<"i","s","l","a","m","a","b","a","d">>, <<"I","s","l","a","m","a","b","a","d">>>>,
     <<<<"r","w","p">>, <<"R","a","w","a","l","p","i","n","d","i">>>>,
     <<<<"r","a","w","a","l","p","i","n","d","i">>, <<"R","a","w","a","l","p","i","n","d","i">>>>,
     <<<<"l","h","r">>, <<"L","a","h","o","r","e">>>>,
     <<<<"l","a","h","o","r","e">>, <<"L","a","h","o","r","e">>>>,
     <<<<"k","h","i">>, <<"K","a","r","a","c","h","i">>>>,
     <<<<"k","a","r","a","c","h","i">>, <<"K","a","r","a","c","h","i">>>>,
     <<<<"k","t">>, <<"K","a","r","a","c","h","i">>>>,
     <<<<"p","e","s","h">>, <<"P","e","s","h","a","w","a","r">>>>,
     <<<<"p","e","s","h","a","w","a","r">>, <<"P","e","s","h","a","w","a","r">>>>,
     <<<<"q","t","a">>, <<"Q","u","e","t","t","a">>>>,
     <<<<"q","u","e","t","t","a">>, <<"Q","u","e","t","t","a">>>>,
     <<<<"a","b","b","o","t","t">>, <<"A","b","b","o","t","t","a","b","a","d">>>>,
     <<<<"a","b","b","o","t","t","a","b","a","d">>, <<"A","b","b","o","t","t","a","b","a","d">>>>,
     <<<<"s","k","t">>, <<"S","i","a","l","k","o","t">>>>,
     <<<<"s","i","a","l","k","o","t">>, <<"S","i","a","l","k","o","t">>>>,
     <<<<"m","u","l">>, <<"M","u","l","t","a","n">>>>,
     <<<<"m","u","l","t","a","n">>, <<"M","u","l","t","a","n">>>>,
     <<<<"f","a","i","s","a","l","a","b","a","d">>, <<"F","a","i","s","a","l","a","b","a","d">>>>,
     <<<<"f","s","d">>, <<"F","a","i","s","a","l","a","b","a","d">>>>,
     <<<<"s","u","k">>, <<"S","u","k","k","u","r">>>>,
     <<<<"s","u","k","k","u","r">>, <<"S","u","k","k","u","r">>>> >>

----------------------------------------------------------------------------
(* Normalisers (lines 183-258) *)

cutoff_dept == 83
cutoff_prog == 90
cutoff_uni == 78
cutoff_campus == 80
cutoff_uni_token == 80
cutoff_dept_token == 83

\* The first entry of a sorted vocabulary equal to t ignoring case, or None.
FirstEqualLower(vocab, t) ==
  IF \E i \in 1..Len(vocab) : lower(vocab[i]) = t
  THEN vocab[CHOOSE i \in 1..Len(vocab) :
               /\ lower(vocab[i]) = t
               /\ \A j \in 1..(i - 1) : lower(vocab[j]) # t]
  ELSE None

norm_dept(recs, txt) ==
  IF ~Truthy(txt) THEN None
  ELSE LET t == lower(strip(txt))
       IN IF AliasHas(dept_aliases, t) THEN AliasGet(dept_aliases, t)
          ELSE IF FirstEqualLower(DEPTS(recs), t) # None
               THEN FirstEqualLower(DEPTS(recs), t)
          ELSE OrElse(fuzzy_pick(txt, DEPTS(recs), cutoff_dept), strip(txt))

norm_prog(recs, txt) ==
  IF ~Truthy(txt) THEN None
  ELSE LET t == SelectSeq(lower(strip(txt)), LAMBDA c : c \notin {"-", "_", " "})
       IN IF AliasHas(prog_aliases, t) THEN AliasGet(prog_aliases, t)
          ELSE OrElse(fuzzy_pick(txt, PROGS(recs), cutoff_prog), strip(txt))

norm_uni(recs, txt) ==
  IF ~Truthy(txt) THEN None
  ELSE IF FirstEqualLower(UNIS(recs), lower(strip(txt))) # None
       THEN FirstEqualLower(UNIS(recs), lower(strip(txt)))
  ELSE OrElse(fuzzy_pick(txt, UNIS(recs), cutoff_uni), strip(txt))

\* re.split(r"\s*(?:,|and|&)\s*", txt, flags=re.IGNORECASE): the pieces
\* between the separators.  The white space the pattern takes with a
\* separator is left on the pieces here; every caller strips them.
RECURSIVE SplitSep(_, _)
SplitSep(s, cur) ==
  IF s = <<>> THEN <<cur>>
  ELSE IF Head(s) \in {",", "&"} THEN <<cur>> \o SplitSep(Tail(s), <<>>)
  ELSE IF Len(s) >= 3 /\ lower(SubSeq(s, 1, 3)) = <<"a","n","d">>
       THEN <<cur>> \o SplitSep(SubSeq(s, 4, Len(s)), <<>>)
  ELSE SplitSep(Tail(s), Append(cur, Head(s)))

\* re.split(r',\s*', s): the pieces between commas (callers strip them).
RECURSIVE SplitComma(_, _)
SplitComma(s, cur) ==
  IF s = <<>> THEN <<cur>>
  ELSE IF Head(s) = "," THEN <<cur>> \o SplitComma(Tail(s), <<>>)
  ELSE SplitComma(Tail(s), Append(cur, Head(s)))

\* One part of a campus string (lines 220-228); <<>> for a blank part.
NormCampusPart(recs, p) ==
  LET p_s == strip(p)
  IN IF p_s = <<>> THEN <<>>
     ELSE IF AliasHas(campus_aliases, lower(p_s))
          THEN <<AliasGet(campus_aliases, lower(p_s))>>
     ELSE <<OrElse(fuzzy_pick(p_s, CAMPS(recs), cutoff_campus), p_s)>>

RECURSIVE NormCampusParts(_, _)
NormCampusParts(recs, parts) ==
  IF parts = <<>> THEN <<>>
  ELSE NormCampusPart(recs, Head(parts)) \o NormCampusParts(recs, Tail(parts))

norm_campus(recs, txt) ==
  IF ~Truthy(txt) THEN <<>>
  ELSE JoinComma(DedupeLower(NormCampusParts(recs, SplitSep(txt, <<>>)), {}))

\* [x.strip().lower() for x in re.split(r',\s*', c2) if x.strip()]
CampusFilterParts(c2) ==
  LET parts == SplitComma(c2, <<>>)
  IN {lower(strip(parts[i])) : i \in {j \in 1..Len(parts) : strip(parts[j]) # <<>>}}

campus_like(c1, c2) ==
  IF ~Truthy(c2) THEN TRUE
  ELSE LET c1_l == lower(IF c1 = None THEN <<>> ELSE c1)
       IN \E part \in CampusFilterParts(c2) : part = c1_l \/ Contains(c1_l, part)

StrOrEmpty(x) == IF x = None THEN <<>> ELSE x

departments_at_uni(recs, uni) ==
  SortedStrs({recs[i].Department :
                i \in {j \in 1..Len(recs) : lower(recs[j].University) = lower(StrOrEmpty(uni))}})

\* The string literals of adjust_dept_for_uni (lines 255-257)
lit_computer_science == <<"c","o","m","p","u","t","e","r"," ","s","c","i","e","n","c","e">>
lit_software_engineering == <<"s","o","f","t","w","a","r","e"," ","e","n","g","i","n","e","e","r","i","n","g">>
lit_cyber_security == <<"c","y","b","e","r"," ","s","e","c","u","r","i","t","y">>
lit_computing == <<"c","o","m","p","u","t","i","n","g">>
lit_Computing == <<"C","o","m","p","u","t","i","n","g">>

adjust_dept_for_uni(recs, uni, dept) ==
  IF ~Truthy(uni) \/ ~Truthy(dept) THEN dept
  ELSE LET uni_deps == {lower(d) : d \in Range(departments_at_uni(recs, uni))}
       IN IF /\ lower(dept) \in {lit_computer_science, lit_software_engineering,
                                  lit_cyber_security}
             /\ lit_computer_science \notin uni_deps
             /\ lit_computing \in uni_deps
          THEN lit_Computing
          ELSE dept

----------------------------------------------------------------------------
(* Data helpers (lines 264-303) *)

lookup_rows(recs, uni, camp, dept, prog, yr) ==
  SelectSeq(recs, LAMBDA rec :
    /\ lower(rec.University) = lower(StrOrEmpty(uni))
    /\ campus_like(rec.Campus, camp)
    /\ lower(rec.Department) = lower(StrOrEmpty(dept))
    /\ lower(rec.Program) = lower(StrOrEmpty(prog))
    /\ rec.Year = yr)

\* camp = None: no campus filter
available_years(recs, uni, dept, prog, camp) ==
  SortedInts({recs[i].Year :
                i \in {j \in 1..Len(recs) :
                         /\ lower(recs[j].University) = lower(StrOrEmpty(uni))
                         /\ lower(recs[j].Department) = lower(StrOrEmpty(dept))
                         /\ lower(recs[j].Program) = lower(StrOrEmpty(prog))
                         /\ (camp = None \/ campus_like(recs[j].Campus, camp))}})

Abs(n) == IF n < 0 THEN -n ELSE n

\* min with the last element of the least key instead of the first
MinByDistanceLast(ys, yr) ==
  ys[CHOOSE i \in 1..Len(ys) :
       /\ \A j \in 1..Len(ys) : Abs(ys[i] - yr) <= Abs(ys[j] - yr)
       /\ \A j \in (i + 1)..Len(ys) : Abs(ys[j] - yr) > Abs(ys[i] - yr)]

\* min(ys, key=...): the first element of ys of the least key
MinByDistance(ys, yr) ==
  ys[CHOOSE i \in 1..Len(ys) :
       /\ \A j \in 1..Len(ys) : Abs(ys[i] - yr) <= Abs(ys[j] - yr)
       /\ \A j \in 1..(i - 1) : Abs(ys[j] - yr) > Abs(ys[i] - yr)]

\* closest_year: <<>> for None, <<y>> for the year y
closest_year(recs, uni, dept, prog, yr, camp) ==
  LET ys == available_years(recs, uni, dept, prog, camp)
  IN IF ys = <<>> THEN <<>> ELSE <<MinByDistance(ys, yr)>>

\* campuses_offering without its test of the program
campuses_offering_any_program(recs, uni, dept, prog) ==
  SortedStrs({recs[i].Campus :
                i \in {j \in 1..Len(recs) :
                         /\ lower(recs[j].University) = lower(StrOrEmpty(uni))
                         /\ lower(recs[j].Department) = lower(StrOrEmpty(dept))}})

\* campuses_offering(uni, dept, prog, yr=None), as both callers call it
campuses_offering(recs, uni, dept, prog) ==
  SortedStrs({recs[i].Campus :
                i \in {j \in 1..Len(recs) :
                         /\ lower(recs[j].University) = lower(StrOrEmpty(uni))
                         /\ lower(recs[j].Department) = lower(StrOrEmpty(dept))
                         /\ lower(recs[j].Program) = lower(StrOrEmpty(prog))}})

programs_for(recs, uni, dept) ==
  SortedStrs({recs[i].Program :
                i \in {j \in 1..Len(recs) :
                         /\ lower(recs[j].University) = lower(StrOrEmpty(uni))
                         /\ lower(recs[j].Department) = lower(StrOrEmpty(dept))}})

----------------------------------------------------------------------------
(* Regular-expression helpers *)

WordAt(s, i) == i >= 1 /\ i <= Len(s) /\ IsWordChar(s[i])

\* \b between s[p-1] and s[p]
Boundary(s, p) == WordAt(s, p - 1) # WordAt(s, p)

\* pat matches s from position i; "." of pat matches any character when
\* wildcard (the key was put in the pattern unescaped).
MatchAt(pat, s, i, wildcard) ==
  /\ i >= 1
  /\ i + Len(pat) - 1 <= Len(s)
  /\ \A j \in 1..Len(pat) : (wildcard /\ pat[j] = ".") \/ pat[j] = s[i + j - 1]

\* re.search(rf"\b{pat}\b", s)
WordSearch(pat, s, wildcard) ==
  \E i \in 1..Len(s) :
    MatchAt(pat, s, i, wildcard) /\ Boundary(s, i) /\ Boundary(s, i + Len(pat))

IsTokenChar(c) ==
  c \in Range(UpperCase) \cup Range(LowerCase) \cup Range(DigitChars) \cup {"'"}

RECURSIVE TokenRuns(_, _)
TokenRuns(s, cur) ==
  IF s = <<>> THEN (IF cur # <<>> THEN <<cur>> ELSE <<>>)
  ELSE IF IsTokenChar(Head(s)) THEN TokenRuns(Tail(s), Append(cur, Head(s)))
  ELSE (IF cur # <<>> THEN <<cur>> ELSE <<>>) \o TokenRuns(Tail(s), <<>>)

\* re.findall(r"[A-Za-z0-9']{n,}", s)
Tokens(s, n) == SelectSeq(TokenRuns(s, <<>>), LAMBDA t : Len(t) >= n)

----------------------------------------------------------------------------
(* Extraction (lines 308-392) *)

lit_last == <<"l","a","s","t">>
lit_year == <<"y","e","a","r">>

\* \blast\s+year\b matches from position i
LastYearAt(s, i) ==
  /\ MatchAt(lit_last, s, i, FALSE)
  /\ Boundary(s, i)
  /\ \E n \in 1..Len(s) :
       /\ \A k \in (i + 4)..(i + 3 + n) : k <= Len(s) /\ IsSpace(s[k])
       /\ MatchAt(lit_year, s, i + 4 + n, FALSE)
       /\ Boundary(s, i + 8 + n)

\* \b(20\d{2}|19\d{2})\b matches from position i
YearAt(s, i) ==
  /\ i + 3 <= Len(s)
  /\ Boundary(s, i)
  /\ SubSeq(s, i, i + 1) \in {<<"2","0">>, <<"1","9">>}
  /\ s[i + 2] \in Range(DigitChars)
  /\ s[i + 3] \in Range(DigitChars)
  /\ Boundary(s, i + 4)

DigitVal(c) == (CHOOSE i \in 1..10 : DigitChars[i] = c) - 1

detect_year_from_text(msg) ==
  LET msg_l == lower(StrOrEmpty(msg))
      now_y == NowYear
  IN IF \E i \in 1..Len(msg_l) : LastYearAt(msg_l, i) THEN now_y - 1
     ELSE IF \E i \in 1..Len(msg_l) : YearAt(msg_l, i)
          THEN LET i == CHOOSE k \in 1..Len(msg_l) :
                          YearAt(msg_l, k) /\ \A j \in 1..(k - 1) : ~YearAt(msg_l, j)
               IN 1000 * DigitVal(msg_l[i]) + 100 * DigitVal(msg_l[i + 1])
                  + 10 * DigitVal(msg_l[i + 2]) + DigitVal(msg_l[i + 3])
     ELSE now_y

\* for u in vocab: if u.lower() in msg_l: found = u; break
FirstContained(vocab, msg_l) ==
  IF \E i \in 1..Len(vocab) : Contains(msg_l, lower(vocab[i]))
  THEN vocab[CHOOSE i \in 1..Len(vocab) :
               /\ Contains(msg_l, lower(vocab[i]))
               /\ \A j \in 1..(i - 1) : ~Contains(msg_l, lower(vocab[j]))]
  ELSE None

\* for token in tokens: fm = fuzzy_pick(token, vocab, cutoff); if fm: found = fm; break
RECURSIVE FirstFuzzy(_, _, _)
FirstFuzzy(tokens, vocab, cutoff) ==
  IF tokens = <<>> THEN None
  ELSE IF Truthy(fuzzy_pick(Head(tokens), vocab, cutoff))
       THEN fuzzy_pick(Head(tokens), vocab, cutoff)
  ELSE FirstFuzzy(Tail(tokens), vocab, cutoff)

\* for k, v in table.items(): if re.search(rf"\b{k}\b", msg_l): found = v; break
FirstAliasWord(table, msg_l) ==
  IF \E i \in 1..Len(table) : WordSearch(table[i][1], msg_l, TRUE)
  THEN table[CHOOSE i \in 1..Len(table) :
               /\ WordSearch(table[i][1], msg_l, TRUE)
               /\ \A j \in 1..(i - 1) : ~WordSearch(table[j][1], msg_l, TRUE)][2]
  ELSE None

lit_BS == <<"B","S">>

\* camps_detected of lines 363-369, before de-duplication
CampsDetected(recs, msg_l) ==
  LET camps == CAMPS(recs)
      hits1 == SelectSeq(campus_aliases, LAMBDA kv : WordSearch(kv[1], msg_l, FALSE))
      hits2 == SelectSeq(camps, LAMBDA c : Contains(msg_l, lower(c)))
  IN [i \in 1..Len(hits1) |-> hits1[i][2]] \o hits2

cheap_extract(recs, msg) ==
  LET msg_l == lower(StrOrEmpty(msg))
      uni_sub == FirstContained(UNIS(recs), msg_l)
      uni_found == IF Truthy(uni_sub) THEN uni_sub
                   ELSE FirstFuzzy(Tokens(msg_l, 3), UNIS(recs), cutoff_uni_token)
      dept_alias == FirstAliasWord(dept_aliases, msg_l)
      dept_sub == FirstContained(DEPTS(recs), msg_l)
      dept_found == IF Truthy(dept_alias) THEN dept_alias
                    ELSE IF Truthy(dept_sub) THEN dept_sub
                    ELSE FirstFuzzy(Tokens(msg_l, 2), DEPTS(recs), cutoff_dept_token)
      prog_alias == FirstAliasWord(prog_aliases, msg_l)
      prog_sub == FirstContained(PROGS(recs), msg_l)
      prog_found == IF Truthy(prog_alias) THEN prog_alias
                    ELSE IF Truthy(prog_sub) THEN prog_sub
                    ELSE lit_BS
      camps_detected == CampsDetected(recs, msg_l)
      camp_found == IF camps_detected # <<>>
                    THEN JoinComma(DedupeLower(camps_detected, {}))
                    ELSE None
  IN [uni |-> uni_found, camp |-> camp_found, dept |-> dept_found,
      prog |-> prog_found, year |-> detect_year_from_text(msg)]

lit_vacant_seat == <<"v","a","c","a","n","t"," ","s","e","a","t">>
lit_vacancies == <<"v","a","c","a","n","c","i","e","s">>
lit_merit == <<"m","e","r","i","t">>
lit_list == <<"l","i","s","t">>
lit_policy == <<"p","o","l","i","c","y">>
lit_how_many_list == <<"h","o","w"," ","m","a","n","y"," ","l","i","s","t">>

\* \b(merit\s*list(?:s)?)\b matches from position i
MeritListAt(s, i) ==
  /\ MatchAt(lit_merit, s, i, FALSE)
  /\ Boundary(s, i)
  /\ \E n \in 0..Len(s) :
       /\ \A k \in (i + 5)..(i + 4 + n) : k <= Len(s) /\ IsSpace(s[k])
       /\ MatchAt(lit_list, s, i + 5 + n, FALSE)
       /\ \/ Boundary(s, i + 9 + n)
          \/ MatchAt(<<"s">>, s, i + 9 + n, FALSE) /\ Boundary(s, i + 10 + n)

is_policy_question(msg) ==
  LET msg_l == lower(StrOrEmpty(msg))
  IN \/ WordSearch(lit_vacant_seat, msg_l, FALSE)
     \/ WordSearch(lit_vacant_seat \o <<"s">>, msg_l, FALSE)
     \/ WordSearch(lit_vacancies, msg_l, FALSE)
     \/ \E i \in 1..Len(msg_l) : MeritListAt(msg_l, i)
     \/ WordSearch(lit_policy, msg_l, FALSE)
     \/ WordSearch(lit_how_many_list, msg_l, FALSE)
     \/ WordSearch(lit_how_many_list \o <<"s">>, msg_l, FALSE)

----------------------------------------------------------------------------
(* Reply builders (lines 400-468).  A reply is modelled by the facts its    *)
(* text is built from: the kind of sentence, the year, the rows and the     *)
(* names it lists.                                                           *)

Reply(kind, year, rows, names) ==
  [kind |-> kind, slot |-> "none", year |-> year, rows |-> rows,
   names |-> names, parts |-> <<>>]

\* The line of one campus in reply_for_multi_campus.
CampusLine(campus, kind, year, rows, names) ==
  [campus |-> campus, kind |-> kind, year |-> year, rows |-> rows, names |-> names]

\* [c.strip() for c in re.split(r',\s*', camp) if c.strip()]
CampList(camp) ==
  LET parts == SplitComma(camp, <<>>)
      stripped == [i \in 1..Len(parts) |-> strip(parts[i])]
  IN SelectSeq(stripped, LAMBDA c : c # <<>>)

\* The body of the loop of reply_for_multi_campus for campus c.
MultiCampusLine(recs, uni, dept, prog, c, yr) ==
  LET rows == lookup_rows(recs, uni, c, dept, prog, yr)
      cy == closest_year(recs, uni, dept, prog, yr, c)
      fallback == IF cy = <<>> THEN <<>> ELSE lookup_rows(recs, uni, c, dept, prog, cy[1])
      offered_any == campuses_offering(recs, uni, dept, prog)
  IN IF rows # <<>> THEN CampusLine(c, "Answer", yr, <<rows[1]>>, <<>>)
     ELSE IF cy # <<>> /\ fallback # <<>>
          THEN CampusLine(c, "FallbackYear", cy[1], <<fallback[1]>>, <<>>)
     ELSE IF offered_any # <<>> /\ c \notin Range(offered_any)
          THEN CampusLine(c, "NotOfferedHere", yr, <<>>, offered_any)
     ELSE CampusLine(c, "NoData", yr, <<>>, <<>>)

reply_for_multi_campus(recs, uni, dept, prog, camp, yr) ==
  LET camp_list == CampList(camp)
  IN [kind |-> "PerCampus", slot |-> "none", year |-> yr, rows |-> <<>>, names |-> <<>>,
      parts |-> [i \in 1..Len(camp_list) |->
                   MultiCampusLine(recs, uni, dept, prog, camp_list[i], yr)]]

reply_for_single_or_uncamped(recs, uni, dept, prog, camp, yr) ==
  LET rows == lookup_rows(recs, uni, camp, dept, prog, yr)
      cy == closest_year(recs, uni, dept, prog, yr, IF Truthy(camp) THEN camp ELSE None)
      fb == IF cy = <<>> THEN <<>> ELSE lookup_rows(recs, uni, camp, dept, prog, cy[1])
      offered_here_years == available_years(recs, uni, dept, prog, camp)
      offered_other_camps == campuses_offering(recs, uni, dept, prog)
      pr_avail == programs_for(recs, uni, dept)
      deps == departments_at_uni(recs, uni)
  IN IF rows # <<>>
     THEN IF Len(rows) = 1 THEN Reply("AnswerSingle", rows[1].Year, rows, <<>>)
          ELSE Reply("AnswerMultiCampus", yr, rows, <<>>)
     ELSE IF cy # <<>> /\ fb # <<>>
          THEN Reply("FallbackYear", cy[1], <<fb[1]>>, <<>>)
     ELSE IF Truthy(camp) /\ offered_here_years = <<>> /\ offered_other_camps # <<>>
          THEN Reply("AlternateCampuses", yr, <<>>, offered_other_camps)
     ELSE IF Truthy(camp) /\ offered_here_years = <<>> /\ pr_avail # <<>>
          THEN Reply("ProgramNotOffered", yr, <<>>, pr_avail)
     ELSE IF Truthy(camp) /\ offered_here_years = <<>>
          THEN Reply("AlternateDepartments", yr, <<>>, deps)
     ELSE IF pr_avail # <<>>
          THEN Reply("NoMatchPrograms", yr, <<>>, pr_avail)
     ELSE IF uni # None /\ InUniToCamp(recs, uni)
          THEN Reply("NoMatchUniversity", yr, <<>>, UNI_TO_CAMP(recs, uni) \o deps)
     ELSE Reply("NothingMatched", yr, <<>>, <<>>)

----------------------------------------------------------------------------
(* The chat handler (lines 473-591) *)

\* A key the hint's JSON object does not have.
Absent == <<"Absent">>

\* info.get(key, default)
InfoGet(v, default) == IF v = Absent THEN default ELSE v

\* info == {} (falsy at line 508)
InfoEmpty(hint) ==
  /\ hint.university = Absent /\ hint.campus = Absent /\ hint.department = Absent
  /\ hint.program = Absent /\ hint.year.tag = "absent"

\* llm_extract with the whole hint dropped when its year does not parse
llm_extract_all_or_nothing(hint, user_msg) ==
  IF ~hint.ok \/ InfoEmpty(hint) \/ hint.year.tag = "bad"
  THEN [uni |-> None, camp |-> None, dept |-> None, prog |-> None, yr |-> 0]
  ELSE [uni |-> InfoGet(hint.university, None),
        camp |-> InfoGet(hint.campus, <<>>),
        dept |-> InfoGet(hint.department, None),
        prog |-> InfoGet(hint.program, lit_BS),
        yr |-> IF hint.year.tag = "absent" THEN detect_year_from_text(user_msg)
               ELSE hint.year.val]

\* The five variables after the try block of lines 491-515.  hint.ok is
\* FALSE when the provider raised, answered without a JSON object, or with
\* one that does not parse.  yr = 0 stands for None (both are falsy, and
\* lines 518 and 524 treat them alike).  A year that int() rejects raises at
\* line 513, after the four assignments above it: they stay, yr keeps None.
llm_extract(hint, user_msg) ==
  IF ~hint.ok \/ InfoEmpty(hint)
  THEN [uni |-> None, camp |-> None, dept |-> None, prog |-> None, yr |-> 0]
  ELSE [uni |-> InfoGet(hint.university, None),
        camp |-> InfoGet(hint.campus, <<>>),
        dept |-> InfoGet(hint.department, None),
        prog |-> InfoGet(hint.program, lit_BS),
        yr |-> CASE hint.year.tag = "absent" -> detect_year_from_text(user_msg)
                 [] hint.year.tag = "int" -> hint.year.val
                 [] OTHER -> 0]

\* Lines 518-524: the fallback extractor fills what the hint left falsy,
\* when university, department, program or year is falsy.
merge_slots(llm, f) ==
  IF ~(Truthy(llm.uni) /\ Truthy(llm.dept) /\ Truthy(llm.prog) /\ llm.yr # 0)
  THEN [uni |-> OrElse(llm.uni, f.uni),
        camp |-> OrElse(llm.camp, f.camp),
        dept |-> OrElse(llm.dept, f.dept),
        prog |-> OrElse(llm.prog, f.prog),
        yr |-> IF llm.yr # 0 THEN llm.yr ELSE f.year]
  ELSE llm

\* Lines 527-534
normalize_slots(recs, m) ==
  LET uni == IF Truthy(m.uni) THEN norm_uni(recs, m.uni) ELSE None
      dept == IF Truthy(m.dept) THEN norm_dept(recs, m.dept) ELSE None
      prog == IF Truthy(m.prog) THEN norm_prog(recs, m.prog) ELSE None
      camp == IF Truthy(m.camp) THEN norm_campus(recs, m.camp) ELSE <<>>
  IN [uni |-> uni,
      camp |-> camp,
      dept |-> IF Truthy(uni) /\ Truthy(dept) THEN adjust_dept_for_uni(recs, uni, dept) ELSE dept,
      prog |-> prog,
      yr |-> m.yr]

\* Lines 539-542
missing_slots(n) ==
  (IF ~Truthy(n.uni) THEN <<"university">> ELSE <<>>)
  \o (IF ~Truthy(n.dept) THEN <<"department">> ELSE <<>>)
  \o (IF ~Truthy(n.prog) THEN <<"program">> ELSE <<>>)

SuggestionLimit == 8

Take(s, k) == SubSeq(s, 1, Min2(k, Len(s)))

lit_generic_programs == <<<<"B","S">>, <<"M","S">>, <<"M","P","h","i","l">>, <<"P","h","D">>>>

\* Lines 556-565: the clarification prompt and the examples it lists.
AskReply(recs, ask_next, uni, dept) ==
  [kind |-> "AskSlot", slot |-> ask_next, year |-> 0, rows |-> <<>>, parts |-> <<>>,
   names |->
     CASE ask_next = "university" -> Take(UNIS(recs), SuggestionLimit)
       [] ask_next = "department" ->
            IF Truthy(uni) THEN Take(departments_at_uni(recs, uni), SuggestionLimit)
            ELSE Take(DEPTS(recs), SuggestionLimit)
       [] OTHER ->
            IF Truthy(uni) /\ Truthy(dept) /\ JoinComma(programs_for(recs, uni, dept)) # <<>>
            THEN programs_for(recs, uni, dept)
            ELSE lit_generic_programs]

\* user_context.get(session_id, {}): <<>> for {}, <<entry>> for an entry
ReadCtx(uc, session_id) == IF session_id \in DOMAIN uc THEN <<uc[session_id]>> ELSE <<>>

\* ctx.get("awaiting")
CtxAwaiting(ctx) == IF ctx = <<>> THEN "none" ELSE ctx[1].awaiting

\* Line 585
IsMultiCampus(camp) ==
  /\ Truthy(camp)
  /\ \/ Contains(camp, <<",">>)
     \/ WordSearch(<<"a","n","d">>, lower(camp), FALSE)
     \/ Contains(camp, <<"&">>)

\* int(yr) of lines 271 and 286 raises TypeError for yr = None, once a row
\* has passed the filters before it; nothing in chat() catches it.
RaisesOnYear(recs, uni, camp, dept, prog, yr) ==
  /\ yr = 0
  /\ \E i \in 1..Len(recs) :
       /\ lower(recs[i].University) = lower(StrOrEmpty(uni))
       /\ campus_like(recs[i].Campus, camp)
       /\ lower(recs[i].Department) = lower(StrOrEmpty(dept))
       /\ lower(recs[i].Program) = lower(StrOrEmpty(prog))

\* Lines 584-591
resolve_reply(recs, uni, dept, prog, camp, yr) ==
  IF RaisesOnYear(recs, uni, camp, dept, prog, yr)
  THEN Reply("ServerError", yr, <<>>, <<>>)
  ELSE IF IsMultiCampus(camp) THEN reply_for_multi_campus(recs, uni, dept, prog, camp, yr)
  ELSE reply_for_single_or_uncamped(recs, uni, dept, prog, camp, yr)

BlankSlots == [uni |-> None, camp |-> None, dept |-> None, prog |-> None, yr |-> 0]

\* Lines 568-579: the awaited field taken from the raw message, when the
\* turn has no value for it.
fill_awaited(recs, awaiting, n, user_msg) ==
  [uni |-> IF awaiting = "university" /\ ~Truthy(n.uni)
           THEN OrElse(norm_uni(recs, user_msg), n.uni) ELSE n.uni,
   camp |-> n.camp,
   dept |-> IF awaiting = "department" /\ ~Truthy(n.dept)
            THEN OrElse(norm_dept(recs, user_msg), n.dept) ELSE n.dept,
   prog |-> IF awaiting = "program" /\ ~Truthy(n.prog)
            THEN OrElse(norm_prog(recs, user_msg), n.prog) ELSE n.prog,
   yr |-> n.yr]

\* Lines 544-555: what a turn that asks stores.
ctx_entry(ask_next, n) ==
  [awaiting |-> ask_next, known_university |-> n.uni, known_department |-> n.dept,
   known_program |-> n.prog, known_campus |-> n.camp, known_year |-> n.yr]

\* chat() after its read of the session (lines 483-591), given what it read
\* (ctx) and what the extractor gives for the message (f): the reply, and
\* what it does to the session entry ("put" entry, "pop", or "none").
chat_decide(recs, ctx, user_msg, hint, f) ==
  IF is_policy_question(user_msg)
  THEN [reply |-> Reply("Policy", 0, <<>>, <<>>), store |-> "none",
        entry |-> ctx_entry("none", BlankSlots), policy |-> TRUE,
        merged |-> BlankSlots, slots |-> BlankSlots, final |-> BlankSlots]
  ELSE
    Bind(merge_slots(llm_extract(hint, user_msg), f), LAMBDA merged :
    Bind(normalize_slots(recs, merged), LAMBDA n :
      LET missing == missing_slots(n)
          awaiting == CtxAwaiting(ctx)
      IN IF missing # <<>>
         THEN [reply |-> AskReply(recs, missing[1], n.uni, n.dept), store |-> "put",
               entry |-> ctx_entry(missing[1], n), policy |-> FALSE,
               merged |-> merged, slots |-> n, final |-> n]
         ELSE
           Bind(IF awaiting # "none" THEN fill_awaited(recs, awaiting, n, user_msg) ELSE n,
                LAMBDA final :
             [reply |-> resolve_reply(recs, final.uni, final.dept, final.prog, final.camp, final.yr),
              store |-> IF awaiting # "none" THEN "pop" ELSE "none",
              entry |-> ctx_entry("none", BlankSlots), policy |-> FALSE,
              merged |-> merged, slots |-> n, final |-> final])))

\* apply_store without the pop of lines 581-582
apply_store_no_pop(uc, session_id, d) ==
  IF d.store = "put"
  THEN [s \in DOMAIN uc \cup {session_id} |-> IF s = session_id THEN d.entry ELSE uc[s]]
  ELSE uc

\* user_context[session_id] = entry / user_context.pop(session_id, None)
apply_store(uc, session_id, d) ==
  CASE d.store = "put" ->
         [s \in DOMAIN uc \cup {session_id} |-> IF s = session_id THEN d.entry ELSE uc[s]]
    [] d.store = "pop" -> [s \in DOMAIN uc \ {session_id} |-> uc[s]]
    [] OTHER -> uc

----------------------------------------------------------------------------
(* Inputs: the strings, rows, messages and hints the specifications draw    *)
(* from.  The rows come from merit_list.csv, which is not in the            *)
(* repository; the messages and hints come from the caller and the hint     *)
(* provider.                                                                 *)

s_FAST == <<"F","A","S","T">>
s_IBA == <<"I","B","A">>
s_QAU == <<"Q","A","U">>
s_Islamabad == <<"I","s","l","a","m","a","b","a","d">>
s_Lahore == <<"L","a","h","o","r","e">>
s_Karachi == <<"K","a","r","a","c","h","i">>
s_Jand == <<"J","a","n","d">>
s_Computing == <<"C","o","m","p","u","t","i","n","g">>
s_ComputerScience == <<"C","o","m","p","u","t","e","r"," ","S","c","i","e","n","c","e">>
s_Physics == <<"P","h","y","s","i","c","s">>
s_Math == <<"M","a","t","h">>
s_MS == <<"M","S">>
s_MSc == <<"M","S","c">>
s_IslamabadLahore == <<"I","s","l","a","m","a","b","a","d",","," ","L","a","h","o","r","e">>
msg_uni_only == <<"m","e","r","i","t"," ","a","t"," ","F","A","S","T">>
msg_dept_only == <<"C","o","m","p","u","t","e","r"," ","S","c","i","e","n","c","e">>
msg_full == <<"c","s"," ","a","t"," ","f","a","s","t"," ","i","s","b"," ","2","0","2","3">>
msg_nothing == <<"x","y","z">>
msg_policy == <<"m","e","r","i","t"," ","l","i","s","t"," ","p","o","l","i","c","y">>
msg_two_campuses == <<"c","s"," ","a","t"," ","f","a","s","t"," ","i","s","b"," ","a","n","d"," ","l","h","r">>
msg_split_uni == <<"f","a"," ","s","t">>
msg_ms_full == <<"m","s"," ","p","h","y","s","i","c","s"," ","a","t"," ","q","a","u"," ","i","s","b"," ","2","0","2","1">>

Row(u, c, d, p, y, lo, hi) ==
  [University |-> u, Campus |-> c, Department |-> d, Program |-> p, Year |-> y,
   MinimumMerit |-> lo, MaximumMerit |-> hi]

\* The rows of the dialogue specifications (merits in tenths of a percent).
ChatRecords ==
  << Row(s_FAST, s_Islamabad, s_Computing, lit_BS, 2023, 800, 925),
     Row(s_FAST, s_Lahore, s_Computing, lit_BS, 2023, 780, 910),
     Row(s_IBA, s_Karachi, s_ComputerScience, lit_BS, 2022, 700, 880),
     Row(s_QAU, s_Islamabad, s_Physics, s_MS, 2023, 650, 800) >>

Sessions == {"s1", "s2"}
Threads == {"t1", "t2"}

NoHint ==
  [ok |-> FALSE, university |-> Absent, campus |-> Absent, department |-> Absent,
   program |-> Absent, year |-> [tag |-> "absent", val |-> 0]]

\* A hint whose program is white space only.
HintBlankProgram ==
  [ok |-> TRUE, university |-> Absent, campus |-> Absent, department |-> Absent,
   program |-> <<" ">>, year |-> [tag |-> "absent", val |-> 0]]

ChatMessages == {msg_uni_only, msg_dept_only, msg_full, msg_nothing, msg_policy,
                 msg_two_campuses, msg_split_uni}
ChatHints == {NoHint, HintBlankProgram}

ConcMessages == {msg_uni_only, msg_full}
ConcHints == {NoHint}

MergeMessages == {msg_ms_full, msg_uni_only, msg_nothing}
HintYears == {[tag |-> "absent", val |-> 0], [tag |-> "int", val |-> 2022],
              [tag |-> "int", val |-> 0], [tag |-> "bad", val |-> 0]}
MergeHints ==
  {NoHint} \cup
  {[ok |-> TRUE, university |-> u, campus |-> c, department |-> d, program |-> p, year |-> y] :
     u \in {Absent, None, <<>>, s_FAST}, c \in {Absent, <<>>, s_Lahore},
     d \in {Absent, <<>>, s_Computing}, p \in {Absent, <<>>, lit_BS}, y \in HintYears}

\* cheap_extract of the messages above on ChatRecords, tabulated.
ExtractCache == [m \in ChatMessages \cup MergeMessages |-> cheap_extract(ChatRecords, m)]

\* cheap_extract(user_msg), looked up in the table where the table has it
Extracted(recs, m) ==
  IF recs = ChatRecords /\ m \in DOMAIN ExtractCache THEN ExtractCache[m]
  ELSE cheap_extract(recs, m)

----------------------------------------------------------------------------
(* The dialogue, one turn at a time *)

NoProbe == [op |-> "none"]

IdleThread ==
  [pc |-> "idle", session_id |-> "none", user_msg |-> <<>>, hint |-> NoHint, ctx |-> <<>>]

EmptyStore == [s \in {} |-> ctx_entry("none", BlankSlots)]

\* What the history keeps of a completed turn: its inputs, the entry it read
\* (ctx), the entry in the store when it wrote (at_write), and its decision.
Turn(session_id, user_msg, hint, ctx, at_write, d) ==
  [session_id |-> session_id, user_msg |-> user_msg, hint |-> hint, ctx |-> ctx,
   at_write |-> at_write, policy |-> d.policy, merged |-> d.merged, slots |-> d.slots,
   final |-> d.final, reply |-> d.reply, store |-> d.store, entry |-> d.entry]

Init ==
  /\ merit_records = ChatRecords
  /\ user_context = EmptyStore
  /\ threads = [t \in Threads |-> IdleThread]
  /\ history = <<>>
  /\ probe = NoProbe

\* One call of chat() run from its first line to its return.
Chat(session_id, user_msg, hint) ==
  /\ Len(history) < MaxTurns
  /\ \E ctx \in {ReadCtx(user_context, session_id)} :
     \E f \in {Extracted(merit_records, user_msg)} :
     \E d \in {chat_decide(merit_records, ctx, user_msg, hint, f)} :
       /\ user_context' = apply_store(user_context, session_id, d)
       /\ history' = Append(history, Turn(session_id, user_msg, hint, ctx, ctx, d))
  /\ UNCHANGED <<merit_records, threads, probe>>

Next == \E s \in Sessions, m \in ChatMessages, h \in ChatHints : Chat(s, m, h)

Spec == Init /\ [][Next]_vars

----------------------------------------------------------------------------
(* The dialogue with concurrent workers: chat() takes ctx_lock twice, once  *)
(* to read the session (lines 480-481) and once to store (547-555) or pop   *)
(* (581-582); what lies between reads only its own variables and the        *)
(* read-only catalog.                                                        *)

Started == Len(history) + Cardinality({t \in Threads : threads[t].pc # "idle"})

\* Lines 475-481
Begin(t, session_id, user_msg, hint) ==
  /\ threads[t].pc = "idle"
  /\ Started < MaxStarts
  /\ threads' = [threads EXCEPT ![t] =
                   [pc |-> "decide", session_id |-> session_id, user_msg |-> user_msg,
                    hint |-> hint, ctx |-> ReadCtx(user_context, session_id)]]
  /\ UNCHANGED <<merit_records, user_context, history, probe>>

\* Lines 483-591
Finish(t) ==
  /\ threads[t].pc = "decide"
  /\ \E th \in {threads[t]} :
     \E f \in {Extracted(merit_records, th.user_msg)} :
     \E d \in {chat_decide(merit_records, th.ctx, th.user_msg, th.hint, f)} :
       /\ user_context' = apply_store(user_context, th.session_id, d)
       /\ history' = Append(history, Turn(th.session_id, th.user_msg, th.hint, th.ctx,
                                          ReadCtx(user_context, th.session_id), d))
  /\ threads' = [threads EXCEPT ![t] = IdleThread]
  /\ UNCHANGED <<merit_records, probe>>

NextConc ==
  \/ \E t \in Threads, s \in Sessions, m \in ConcMessages, h \in ConcHints : Begin(t, s, m, h)
  \/ \E t \in Threads : Finish(t)

SpecConc == Init /\ [][NextConc]_vars

----------------------------------------------------------------------------
(* One turn on an empty store, for every hint *)

MergeTurn(user_msg, hint) ==
  /\ probe.op = "none"
  /\ \E f \in {Extracted(merit_records, user_msg)} :
     \E d \in {chat_decide(merit_records, ReadCtx(user_context, "s1"), user_msg, hint, f)} :
       /\ probe' = [op |-> "chat", user_msg |-> user_msg, hint |-> hint, extracted |-> f,
                    llm |-> llm_extract(hint, user_msg), merged |-> d.merged,
                    policy |-> d.policy, reply |-> d.reply]
       /\ user_context' = apply_store(user_context, "s1", d)
  /\ UNCHANGED <<merit_records, threads, history>>

NextMerge == \E m \in MergeMessages, h \in MergeHints : MergeTurn(m, h)

SpecMerge == Init /\ [][NextMerge]_vars


----------------------------------------------------------------------------
(* The resolver on its own: every catalog drawn from ResolverRows, one      *)
(* query per behaviour.                                                      *)

ResolverRows ==
  << Row(s_FAST, s_Islamabad, s_Computing, lit_BS, 2019, 770, 900),
     Row(s_FAST, s_Islamabad, s_Computing, lit_BS, 2022, 790, 915),
     Row(s_FAST, s_Islamabad, s_Computing, lit_BS, 2023, 800, 925),
     Row(s_FAST, s_Lahore, s_Computing, lit_BS, 2022, 780, 910),
     Row(s_FAST, s_Karachi, s_Computing, s_MS, 2022, 600, 750),
     Row(s_FAST, s_Islamabad, s_Physics, lit_BS, 2022, 550, 700) >>

\* The rows of all at the positions keep, in the order of all.
RECURSIVE Pick(_, _, _)
Pick(all, keep, i) ==
  IF i > Len(all) THEN <<>>
  ELSE (IF i \in keep THEN <<all[i]>> ELSE <<>>) \o Pick(all, keep, i + 1)

ResolverCatalogs == {Pick(ResolverRows, keep, 1) : keep \in SUBSET (1..Len(ResolverRows))}

QueryDepts == {s_Computing, s_Physics}
QueryProgs == {lit_BS, s_MS}
QueryCamps == {<<>>, s_Islamabad, s_Lahore, s_IslamabadLahore}
QueryYears == {2019, 2021, 2022}

InitResolver ==
  /\ merit_records \in ResolverCatalogs
  /\ user_context = EmptyStore
  /\ threads = [t \in Threads |-> IdleThread]
  /\ history = <<>>
  /\ probe = NoProbe

\* Lines 584-591 on slots that passed the missing-slot check.
Resolve(uni, dept, prog, camp, yr) ==
  /\ probe.op = "none"
  /\ \E reply \in {resolve_reply(merit_records, uni, dept, prog, camp, yr)} :
       probe' = [op |-> "resolve", uni |-> uni, dept |-> dept, prog |-> prog,
                 camp |-> camp, yr |-> yr, reply |-> reply]
  /\ UNCHANGED <<merit_records, user_context, threads, history>>

NextResolver ==
  \E dept \in QueryDepts, prog \in QueryProgs, camp \in QueryCamps, yr \in QueryYears :
    Resolve(s_FAST, dept, prog, camp, yr)

SpecResolver == InitResolver /\ [][NextResolver]_vars

----------------------------------------------------------------------------
(* The normalizers on the vocabulary of a catalog, under changes of letter  *)
(* case.                                                                     *)

NormRows ==
  << Row(s_FAST, s_Islamabad, s_Computing, lit_BS, 2023, 800, 925),
     Row(s_FAST, s_Lahore, s_Computing, lit_BS, 2023, 780, 910),
     Row(s_QAU, s_Islamabad, s_Physics, s_MS, 2023, 650, 800),
     Row(s_QAU, s_Jand, s_Math, s_MSc, 2022, 500, 640),
     Row(s_IBA, s_Karachi, s_ComputerScience, lit_BS, 2022, 700, 880) >>

NormCatalogs == {Pick(NormRows, keep, 1) : keep \in SUBSET (1..Len(NormRows))}

Fields == {"university", "campus", "department", "program"}
Casings == {"same", "lower", "upper"}

Vocabulary(recs, field) ==
  CASE field = "university" -> UNIS(recs)
    [] field = "campus" -> CAMPS(recs)
    [] field = "department" -> DEPTS(recs)
    [] OTHER -> PROGS(recs)

Recase(casing, v) ==
  CASE casing = "lower" -> lower(v)
    [] casing = "upper" -> upper(v)
    [] OTHER -> v

Normalizer(recs, field, txt) ==
  CASE field = "university" -> norm_uni(recs, txt)
    [] field = "campus" -> norm_campus(recs, txt)
    [] field = "department" -> norm_dept(recs, txt)
    [] OTHER -> norm_prog(recs, txt)

InitNorm ==
  /\ merit_records \in NormCatalogs
  /\ user_context = EmptyStore
  /\ threads = [t \in Threads |-> IdleThread]
  /\ history = <<>>
  /\ probe = NoProbe

\* One call of a field's normalizer on an entry of its vocabulary.
Normalize(field, v, casing) ==
  /\ probe.op = "none"
  /\ \E txt \in {Recase(casing, v)} :
     \E out \in {Normalizer(merit_records, field, txt)} :
       probe' = [op |-> "norm", field |-> field, v |-> v, txt |-> txt, out |-> out]
  /\ UNCHANGED <<merit_records, user_context, threads, history>>

NextNorm ==
  \E field \in Fields, casing \in Casings :
    \E v \in Range(Vocabulary(merit_records, field)) : Normalize(field, v, casing)

SpecNorm == InitNorm /\ [][NextNorm]_vars

----------------------------------------------------------------------------
(* The resolver on catalogs where the campus filter of one request lets     *)
(* several rows through: a campus whose name contains another's, and two    *)
(* rows of one campus and year.                                              *)

s_LahoreCantt == <<"L","a","h","o","r","e"," ","C","a","n","t","t">>

OverlapRows ==
  << Row(s_FAST, s_Lahore, s_Computing, lit_BS, 2022, 780, 910),
     Row(s_FAST, s_LahoreCantt, s_Computing, lit_BS, 2022, 740, 880),
     Row(s_FAST, s_Islamabad, s_Computing, lit_BS, 2022, 790, 915),
     Row(s_FAST, s_Islamabad, s_Computing, lit_BS, 2022, 760, 790),
     Row(s_FAST, s_Lahore, s_Computing, lit_BS, 2023, 800, 925),
     Row(s_IBA, s_Karachi, s_ComputerScience, lit_BS, 2022, 700, 880) >>

OverlapCatalogs == {Pick(OverlapRows, keep, 1) : keep \in SUBSET (1..Len(OverlapRows))}

OverlapCamps == {<<>>, s_Lahore, s_LahoreCantt, s_Islamabad}
OverlapYears == {2022, 2023}

InitCampus ==
  /\ merit_records \in OverlapCatalogs
  /\ user_context = EmptyStore
  /\ threads = [t \in Threads |-> IdleThread]
  /\ history = <<>>
  /\ probe = NoProbe

NextCampus ==
  \E camp \in OverlapCamps, yr \in OverlapYears :
    Resolve(s_FAST, s_Computing, lit_BS, camp, yr)

SpecCampus == InitCampus /\ [][NextCampus]_vars

----------------------------------------------------------------------------
(* Properties *)

RequiredSlots == {"university", "department", "program"}

\* The value a stored entry holds for a required slot.
KnownSlot(entry, slot) ==
  CASE slot = "university" -> entry.known_university
    [] slot = "department" -> entry.known_department
    [] OTHER -> entry.known_program

\* The value the turn itself has for a required slot, after normalization.
TurnSlot(slots, slot) ==
  CASE slot = "university" -> slots.uni
    [] slot = "department" -> slots.dept
    [] OTHER -> slots.prog

MissingIn(entry) == {s \in RequiredSlots : ~Truthy(KnownSlot(entry, s))}

SuppliedBy(slots) == {s \in RequiredSlots : Truthy(TurnSlot(slots, s))}

\* C1: a turn that ends with a clarification prompt never asks for a
\* required slot for which the entry it read from its session holds a value.
C1_NeverAsksForKnownSlot ==
  \A i \in 1..Len(history) :
    (history[i].reply.kind = "AskSlot" /\ history[i].ctx # <<>>)
      => ~Truthy(KnownSlot(history[i].ctx[1], history[i].reply.slot))

\* C2: a turn that finds its session with exactly one required slot missing
\* and supplies that slot reaches Ready: it does not end with a prompt.
C2_LastMissingSlotReachesReady ==
  \A i \in 1..Len(history) :
    ( /\ history[i].ctx # <<>>
      /\ ~history[i].policy
      /\ \E s \in RequiredSlots :
           /\ MissingIn(history[i].ctx[1]) = {s}
           /\ s \in SuppliedBy(history[i].slots) )
      => history[i].reply.kind # "AskSlot"

\* The rows of the catalog for the query's university, department, program.
QueryRows ==
  {i \in 1..Len(merit_records) :
     /\ merit_records[i].University = probe.uni
     /\ merit_records[i].Department = probe.dept
     /\ merit_records[i].Program = probe.prog}

\* Those of them the campus filter of the query lets through.
CampusRows ==
  {i \in QueryRows : ~Truthy(probe.camp) \/ merit_records[i].Campus = probe.camp}

YearsWithData == {merit_records[i].Year : i \in CampusRows}

SingleRequest == probe.op = "resolve" /\ ~IsMultiCampus(probe.camp)

\* C3: when no record has the requested year and Y, the years with data
\* under the same filter, is not empty, the reply is a fallback-year result
\* for a year of Y nearest to the requested one, the earlier on a tie, and
\* it shows a record of that year.
C3_FallbackYearIsNearest ==
  (SingleRequest /\ probe.yr \notin YearsWithData /\ YearsWithData # {})
    => /\ probe.reply.kind = "FallbackYear"
       /\ probe.reply.year \in YearsWithData
       /\ \A y \in YearsWithData :
            \/ Abs(probe.reply.year - probe.yr) < Abs(y - probe.yr)
            \/ /\ Abs(probe.reply.year - probe.yr) = Abs(y - probe.yr)
               /\ probe.reply.year <= y
       /\ probe.reply.rows # <<>>
       /\ \A k \in 1..Len(probe.reply.rows) :
            /\ probe.reply.rows[k].Year = probe.reply.year
            /\ \E i \in CampusRows : merit_records[i] = probe.reply.rows[k]

\* 2021 requested with data for 2019 and 2023 only: 2019 is shown.
C3_Witness ==
  /\ SingleRequest
  /\ probe.yr = 2021
  /\ YearsWithData = {2019, 2023}
  /\ probe.reply.kind = "FallbackYear"
  /\ probe.reply.year = 2019

HintGives(hint, v) == hint.ok /\ v # Absent /\ Truthy(v)

\* Two values of a field that are the same, any two blank values included.
SameValue(a, b) == (~Truthy(a) /\ ~Truthy(b)) \/ a = b

Preferred(hint, v, extracted) == IF HintGives(hint, v) THEN v ELSE extracted

HintGivesYear(hint) == hint.ok /\ hint.year.tag = "int" /\ hint.year.val # 0

\* C4: each merged field is the hint's value when the hint gives a
\* non-empty one and the extractor's value otherwise, whatever the hint
\* gives for the other fields.
C4_EachFieldMergedIndependently ==
  (probe.op = "chat" /\ ~probe.policy)
    => /\ SameValue(probe.merged.uni,
                    Preferred(probe.hint, probe.hint.university, probe.extracted.uni))
       /\ SameValue(probe.merged.camp,
                    Preferred(probe.hint, probe.hint.campus, probe.extracted.camp))
       /\ SameValue(probe.merged.dept,
                    Preferred(probe.hint, probe.hint.department, probe.extracted.dept))
       /\ SameValue(probe.merged.prog,
                    Preferred(probe.hint, probe.hint.program, probe.extracted.prog))
       /\ probe.merged.yr = IF HintGivesYear(probe.hint) THEN probe.hint.year.val
                            ELSE probe.extracted.year

\* C5: a hint whose year does not parse as an integer loses only its year:
\* the merged year is the extractor's, the hint's other non-empty fields
\* are kept, and the turn ends with a reply, not with an error.
C5_BadYearDiscardsOnlyYear ==
  (probe.op = "chat" /\ ~probe.policy /\ probe.hint.ok /\ probe.hint.year.tag = "bad")
    => /\ probe.merged.yr = probe.extracted.year
       /\ HintGives(probe.hint, probe.hint.university)
            => probe.merged.uni = probe.hint.university
       /\ HintGives(probe.hint, probe.hint.campus)
            => probe.merged.camp = probe.hint.campus
       /\ HintGives(probe.hint, probe.hint.department)
            => probe.merged.dept = probe.hint.department
       /\ HintGives(probe.hint, probe.hint.program)
            => probe.merged.prog = probe.hint.program
       /\ probe.reply.kind # "ServerError"

\* A hint with university FAST and a bad year, on a message that names QAU
\* and 2021.
C5_Witness ==
  /\ probe.op = "chat"
  /\ ~probe.policy
  /\ probe.hint.ok
  /\ probe.hint.year.tag = "bad"
  /\ probe.hint.university = s_FAST
  /\ probe.extracted.uni = s_QAU
  /\ probe.merged.uni = s_FAST
  /\ probe.merged.yr = 2021
  /\ probe.reply.kind # "ServerError"

\* C6: a turn that stores or clears its session entry finds in the store,
\* at that moment, what it read at its start: no other turn has written the
\* entry in between.
C6_ReadAndWriteAreAtomic ==
  \A i \in 1..Len(history) :
    history[i].store \in {"put", "pop"} => history[i].at_write = history[i].ctx

CampusRequest == SingleRequest /\ Truthy(probe.camp)

CampusesWithRecord == {merit_records[i].Campus : i \in QueryRows}

DepartmentsAtUni ==
  {merit_records[i].Department :
     i \in {j \in 1..Len(merit_records) : merit_records[j].University = probe.uni}}

ProgramsOfDepartment ==
  {merit_records[i].Program :
     i \in {j \in 1..Len(merit_records) :
              /\ merit_records[j].University = probe.uni
              /\ merit_records[j].Department = probe.dept}}

\* C7, as stated: with a campus requested that has no record in any year,
\* the reply lists the campuses that have one when there are any, and the
\* departments of the university when there are none.
C7_AlternateCampusOrDepartments ==
  (CampusRequest /\ CampusRows = {})
    => IF CampusesWithRecord # {}
       THEN /\ probe.reply.kind = "AlternateCampuses"
            /\ Range(probe.reply.names) = CampusesWithRecord
       ELSE /\ probe.reply.kind = "AlternateDepartments"
            /\ Range(probe.reply.names) = DepartmentsAtUni

\* C7, amended: as above, except that when no campus has a record and the
\* department has records for other programs at the university, the reply
\* lists those programs; the departments are listed only when the
\* department has no record at the university at all.
C7_AlternateCampusProgramsOrDepartments ==
  (CampusRequest /\ CampusRows = {})
    => IF CampusesWithRecord # {}
       THEN /\ probe.reply.kind = "AlternateCampuses"
            /\ Range(probe.reply.names) = CampusesWithRecord
       ELSE IF ProgramsOfDepartment # {}
       THEN /\ probe.reply.kind = "ProgramNotOffered"
            /\ Range(probe.reply.names) = ProgramsOfDepartment
       ELSE /\ probe.reply.kind = "AlternateDepartments"
            /\ Range(probe.reply.names) = DepartmentsAtUni

\* Lahore requested for BS Computing at FAST, which has records at
\* Islamabad only.
C7_Witness ==
  /\ CampusRequest
  /\ CampusRows = {}
  /\ probe.camp = s_Lahore
  /\ probe.dept = s_Computing
  /\ probe.prog = lit_BS
  /\ probe.reply.kind = "AlternateCampuses"
  /\ probe.reply.names = <<s_Islamabad>>

\* C8: a field's normalizer returns an entry of the field's vocabulary
\* unchanged, whatever the letter case it is given in.
C8_NormalizerKeepsVocabulary ==
  probe.op = "norm" => probe.out = probe.v

\* C9: a turn that stores its session entry keeps every value the entry it
\* read held, unless the turn has a non-blank value of its own for the slot.
C9_StoredEntryKeepsKnownSlots ==
  \A i \in 1..Len(history) :
    (history[i].store = "put" /\ history[i].ctx # <<>>)
      => /\ (Truthy(history[i].ctx[1].known_university) /\ ~Truthy(history[i].slots.uni))
              => history[i].entry.known_university = history[i].ctx[1].known_university
         /\ (Truthy(history[i].ctx[1].known_department) /\ ~Truthy(history[i].slots.dept))
              => history[i].entry.known_department = history[i].ctx[1].known_department
         /\ (Truthy(history[i].ctx[1].known_program) /\ ~Truthy(history[i].slots.prog))
              => history[i].entry.known_program = history[i].ctx[1].known_program
         /\ (Truthy(history[i].ctx[1].known_campus) /\ ~Truthy(history[i].slots.camp))
              => history[i].entry.known_campus = history[i].ctx[1].known_campus
         /\ (history[i].ctx[1].known_year # 0 /\ history[i].slots.yr = 0)
              => history[i].entry.known_year = history[i].ctx[1].known_year

\* The raw message under the normalizer of the awaited slot.
AwaitedValue(recs, awaiting, user_msg) ==
  CASE awaiting = "university" -> norm_uni(recs, user_msg)
    [] awaiting = "department" -> norm_dept(recs, user_msg)
    [] awaiting = "program" -> norm_prog(recs, user_msg)
    [] OTHER -> None

\* C10: a turn whose session awaits a slot, and whose raw message the
\* slot's normalizer takes to an entry of the vocabulary, does not end by
\* asking for that slot again.
C10_AwaitedSlotFilledFromMessage ==
  \A i \in 1..Len(history) :
    ( /\ history[i].ctx # <<>>
      /\ ~history[i].policy
      /\ AwaitedValue(merit_records, history[i].ctx[1].awaiting, history[i].user_msg)
           \in Range(Vocabulary(merit_records, history[i].ctx[1].awaiting)) )
      => ~(history[i].reply.kind = "AskSlot"
           /\ history[i].reply.slot = history[i].ctx[1].awaiting)

\* The rows the exact lookup of the query finds.
ExactRows ==
  lookup_rows(merit_records, probe.uni, probe.camp, probe.dept, probe.prog, probe.yr)

\* C11: a request for one campus whose exact lookup finds a record is
\* answered with a single record, however many records the lookup finds;
\* the summary over campuses is given only when no campus was requested and
\* the records found are of more than one campus.
C11_SingleCampusGivesSingleAnswer ==
  SingleRequest
    => /\ (Truthy(probe.camp) /\ ExactRows # <<>>)
            => /\ probe.reply.kind = "AnswerSingle"
               /\ Len(probe.reply.rows) = 1
               /\ probe.reply.rows[1] \in Range(ExactRows)
       /\ probe.reply.kind = "AnswerMultiCampus"
            => /\ ~Truthy(probe.camp)
               /\ Cardinality({ExactRows[i].Campus : i \in 1..Len(ExactRows)}) > 1

\* The campuses of a request, in the order of the request.
RequestedCampuses ==
  IF probe.camp = s_IslamabadLahore THEN <<s_Islamabad, s_Lahore>> ELSE <<probe.camp>>

\* What the same request gets when it names campus c alone.
SingleOutcome(c) ==
  reply_for_single_or_uncamped(merit_records, probe.uni, probe.dept, probe.prog, c, probe.yr)

\* The line of a campus says what the reply r to the single request says.
\* The lines of reply_for_multi_campus are the exact answer, the fallback
\* year, the other campuses, and "No data"; none of them lists departments
\* or programs.
SameOutcome(line, r) ==
  CASE r.kind = "AnswerSingle" -> line.kind = "Answer" /\ line.rows = r.rows
    [] r.kind = "FallbackYear" ->
         line.kind = "FallbackYear" /\ line.year = r.year /\ line.rows = r.rows
    [] r.kind = "AlternateCampuses" ->
         line.kind = "NotOfferedHere" /\ line.names = r.names
    [] OTHER -> FALSE

\* C12: a request for several campuses gets one line per requested campus,
\* in the order of the request, and the line of campus c says what a request
\* for c alone, with the same university, department, program and year, gets.
C12_PerCampusOutcomeIsSingleOutcome ==
  (probe.op = "resolve" /\ IsMultiCampus(probe.camp))
    => /\ probe.reply.kind = "PerCampus"
       /\ Len(probe.reply.parts) = Len(RequestedCampuses)
       /\ \A i \in 1..Len(RequestedCampuses) :
            /\ probe.reply.parts[i].campus = RequestedCampuses[i]
            /\ SameOutcome(probe.reply.parts[i], SingleOutcome(RequestedCampuses[i]))

\* A turn that reached Ready: the resolver was invoked.
ReadyTurn(t) == ~t.policy /\ t.reply.kind # "AskSlot"

\* The position in history of the last turn of session s, 0 when it has none.
LastTurnOf(s) ==
  IF \E i \in 1..Len(history) : history[i].session_id = s
  THEN CHOOSE i \in 1..Len(history) :
         /\ history[i].session_id = s
         /\ \A j \in (i + 1)..Len(history) : history[j].session_id # s
  ELSE 0

\* C13: with turns run one at a time, right after a turn of a session that
\* reached Ready the store has no entry for the session, and an entry in the
\* store is the one a turn of that session stored when it ended with a
\* clarification prompt.
C13_ReadyClearsTheSession ==
  \A s \in Sessions :
    /\ (LastTurnOf(s) # 0 /\ ReadyTurn(history[LastTurnOf(s)]))
         => s \notin DOMAIN user_context
    /\ s \in DOMAIN user_context
         => \E i \in 1..Len(history) :
              /\ history[i].session_id = s
              /\ history[i].reply.kind = "AskSlot"
              /\ history[i].store = "put"
              /\ history[i].entry = user_context[s]

\* Session s1 was awaiting a slot and its last turn reached Ready: the entry
\* it read is gone.
C13_Witness ==
  /\ LastTurnOf("s1") # 0
  /\ ReadyTurn(history[LastTurnOf("s1")])
  /\ history[LastTurnOf("s1")].ctx # <<>>
  /\ history[LastTurnOf("s1")].store = "pop"
  /\ "s1" \notin DOMAIN user_context
====
